---------------------------- MODULE Spec2Model ----------------------------
(***************************************************************************)
(* Model of the motion-analysis pipeline of WildlifeDetectionInterface.tsx *)
(* (React component): the interval-driven analyzeFrame cycle, the          *)
(* acceptance filter, the bounded detection history, the analytics         *)
(* counters, and the lifecycle that starts and stops the interval timer    *)
(* (activation effect, camera initialisation, readiness effect).           *)
(*                                                                         *)
(* JavaScript runs every handler to completion, so each handler is one     *)
(* atomic action.  A state update (setState) is followed by a render and   *)
(* its effects before any other event; the effects are part of the action  *)
(* that updates the state.  The "live" tab is assumed selected, so the     *)
(* <video> element (videoRef.current) exists.                              *)
(*                                                                         *)
(* Numbers that are floating point in the source (intensity, confidence)   *)
(* are exact rationals <<numerator, denominator>> in lowest terms.         *)
(***************************************************************************)
EXTENDS Integers, Sequences, FiniteSets

VARIABLES
    isActive,            \* systemState.isActive (line 10)
    selectedCamera,      \* selectedCamera (line 23)
    pendingInits,        \* initializeCamera calls awaiting getUserMedia (227)
    streamRef,           \* streamRef.current # null: the stream attached to the
                         \* <video> element, its tracks running
    video,               \* the <video> element: [readyState, videoWidth, videoHeight]
    onloadedmetadata,    \* videoRef.current.onloadedmetadata is installed (232)
    readyDep,            \* dependency value of the readiness effect at the last render (329)
    canvas,              \* canvasRef.current width and height
    analysisContextRef,  \* analysisContextRef.current # null
    previousFrameRef,    \* previousFrameRef.current (NoFrame = null)
    processingRef,       \* processingRef.current
    analysisIntervalRef, \* analysisIntervalRef.current (0 = null, else a timer id)
    timers,              \* live interval timers: records [id, active], active =
                         \* the systemState.isActive captured by the callback's closure
    detectionData,       \* detectionData (line 16)
    analyticsData,       \* analyticsData (line 17)
    clock,               \* wall clock, in whole local hours since a local midnight
    acceptedLog,         \* history variable: every accepted detection entry, in order
    fresh,               \* history variable: no cycle has run since the last cleanup
    lastEvent            \* history variable: the last step and, for a tick, its outcome

vars == <<isActive, selectedCamera, pendingInits, streamRef, video,
          onloadedmetadata, readyDep, canvas, analysisContextRef,
          previousFrameRef, processingRef, analysisIntervalRef, timers,
          detectionData, analyticsData, clock, acceptedLog,
          fresh, lastEvent>>

---------------------------------------------------------------------------
(* Bounds of the model.                                                    *)

\* Accepted detections after which the lifecycle specification stops ticking.
MaxDetections == 2
\* Accepted detections beyond the history capacity in the long-run specification.
MaxOverflow == 2
\* Accepted detections in the classifier specification.
MaxClassifierDetections == 1
\* Accepted detections in the analytics specification.
MaxAnalyticsDetections == 2
\* initializeCamera calls that may be in flight at once.
MaxPendingInits == 2

---------------------------------------------------------------------------
(* Exact rational arithmetic.                                              *)

RECURSIVE GCD(_, _)
GCD(a, b) == IF b = 0 THEN a ELSE GCD(b, a % b)

Rat(n, d) == LET g == GCD(n, d) IN <<n \div g, d \div g>>

RatGT(a, b) == a[1] * b[2] > b[1] * a[2]

RatMin(a, b) == IF RatGT(a, b) THEN b ELSE a

RatMul(a, b) == Rat(a[1] * b[1], a[2] * b[2])

RatAdd(a, b) ==
    LET g == GCD(a[2], b[2])
    IN  Rat(a[1] * (b[2] \div g) + b[1] * (a[2] \div g), (a[2] \div g) * b[2])

Abs(x) == IF x < 0 THEN -x ELSE x

---------------------------------------------------------------------------
(* Frames.  A frame is its dimensions and a scene; a scene is two          *)
(* horizontal bands of h1 and h2 pixel rows with colours c1 and c2 over a  *)
(* background colour bg.  A colour is <<r, g, b>>, each in 0..255.         *)

NoFrame == [width |-> 0, height |-> 0,
            scene |-> [h1 |-> 0, c1 |-> <<0, 0, 0>>, h2 |-> 0,
                       c2 |-> <<0, 0, 0>>, bg |-> <<0, 0, 0>>]]

Gray(v) == <<v, v, v>>

Uniform(c) == [h1 |-> 0, c1 |-> c, h2 |-> 0, c2 |-> c, bg |-> c]

Bands(h1, c1, h2, c2, bg) == [h1 |-> h1, c1 |-> c1, h2 |-> h2, c2 |-> c2, bg |-> bg]

\* The value marking undefined / NaN in the difference arithmetic.
NaN == -1

\* imageData.data.length of a frame: 4 bytes per pixel.
DataLength(f) == f.width * f.height * 4

\* Colour of the scene at pixel row y.
SceneColour(s, y) ==
    IF y < s.h1 THEN s.c1
    ELSE IF y < s.h1 + s.h2 THEN s.c2
    ELSE s.bg

\* The bytes data[i], data[i + 1], data[i + 2] of a frame's RGBA array, i the
\* index of a pixel's first byte: the pixel's colour, or three times NaN where
\* the index is out of range (JavaScript yields undefined there).  The length
\* and i are multiples of 4, so the three bytes are in range together.
NoPixel == <<NaN, NaN, NaN>>

PixelAt(f, i) ==
    IF i < 0 \/ i + 2 >= DataLength(f) THEN NoPixel
    ELSE SceneColour(f.scene, (i \div 4) \div f.width)

\* Math.abs(a - b), NaN if either operand is undefined.
AbsDiff(a, b) == IF a = NaN \/ b = NaN THEN NaN ELSE Abs(a - b)

\* The sum of three terms, NaN if any is NaN.
Sum3(a, b, c) == IF a = NaN \/ b = NaN \/ c = NaN THEN NaN ELSE a + b + c

\* The summed absolute difference of two pixels' colour bytes.
ColourDiff(a, b) ==
    Sum3(AbsDiff(a[1], b[1]), AbsDiff(a[2], b[2]), AbsDiff(a[3], b[3]))

---------------------------------------------------------------------------
(* Program constants.                                                      *)

skipFactor == 8
minimumPixelDifference == 10
historyCapacity == 50
maxPixelDifference == 765
coveragePoints == 1000
hoursPerDay == 24

AcceptanceThreshold == <<2, 5>>

Types == {"LARGE_ANIMAL", "MEDIUM_ANIMAL", "SMALL_ANIMAL", "AMBIENT_MOTION"}

---------------------------------------------------------------------------
(* The difference scan of analyzeFrame (lines 77-99).                      *)

\* diff of lines 89-91 at byte index i.
PixelDiff(cur, prev, i) == ColourDiff(PixelAt(cur, i), PixelAt(prev, i))

\* One sampled point (lines 87-97): its contribution <<diff, 1>> to
\* <<totalMotion, motionPoints>>, or <<0, 0>>.  A comparison with NaN is false.
SamplePoint(cur, prev, x, y) ==
    LET i == (y * cur.width + x) * 4
        inBounds == i >= 0 /\ i < DataLength(cur) - 3
        diff == PixelDiff(cur, prev, i)
    IN  IF inBounds /\ diff # NaN /\ diff > minimumPixelDifference
        THEN <<diff, 1>>
        ELSE <<0, 0>>

AddSignal(a, b) == <<a[1] + b[1], a[2] + b[2]>>

\* Sampled positions per row and per column: x and y run over the
\* multiples of skipFactor below the width and the height (lines 85-86).
GridCols(f) == (f.width + skipFactor - 1) \div skipFactor

GridRows(f) == (f.height + skipFactor - 1) \div skipFactor

\* The loops of lines 85-99 over the sampled points lo..hi, numbered in the
\* order the loops visit them (row by row).  The sums are integer sums; they
\* are taken by halving the range, which keeps the evaluation shallow.
RECURSIVE ScanRange(_, _, _, _)
ScanRange(cur, prev, lo, hi) ==
    IF lo > hi THEN <<0, 0>>
    ELSE IF lo = hi
    THEN SamplePoint(cur, prev, (lo % GridCols(cur)) * skipFactor,
                     (lo \div GridCols(cur)) * skipFactor)
    ELSE LET mid == (lo + hi) \div 2
         IN  AddSignal(ScanRange(cur, prev, lo, mid),
                       ScanRange(cur, prev, mid + 1, hi))

\* <<totalMotion, motionPoints>> of the current frame against the retained one.
MotionSignal(cur, prev) ==
    ScanRange(cur, prev, 0, GridCols(cur) * GridRows(cur) - 1)

---------------------------------------------------------------------------
(* Scoring and classification.                                             *)

\* A faulty variant of Intensity: normalised by one channel's maximum, 255.
IntensityPerChannel(totalMotion, motionPoints) ==
    RatMin(Rat(totalMotion, motionPoints * 255), <<1, 1>>)

\* Math.min(totalMotion / (motionPoints * 765), 1) (line 104).
Intensity(totalMotion, motionPoints) ==
    RatMin(Rat(totalMotion, motionPoints * maxPixelDifference), <<1, 1>>)

calculateConfidence(intensity, points) ==
    LET intensityFactor == RatMin(RatMul(intensity, <<2, 1>>), <<1, 1>>)
        coverageFactor == RatMin(Rat(points, coveragePoints), <<1, 1>>)
    IN  RatAdd(RatMul(intensityFactor, <<3, 5>>), RatMul(coverageFactor, <<2, 5>>))

\* A faulty variant of classifyMotion: the thresholds are inclusive.
classifyMotionInclusive(intensity, points) ==
    IF ~RatGT(<<7, 10>>, intensity) /\ points >= 500 THEN "LARGE_ANIMAL"
    ELSE IF ~RatGT(<<2, 5>>, intensity) /\ points >= 200 THEN "MEDIUM_ANIMAL"
    ELSE IF ~RatGT(<<1, 5>>, intensity) /\ points >= 50 THEN "SMALL_ANIMAL"
    ELSE "AMBIENT_MOTION"

classifyMotion(intensity, points) ==
    IF RatGT(intensity, <<7, 10>>) /\ points > 500 THEN "LARGE_ANIMAL"
    ELSE IF RatGT(intensity, <<2, 5>>) /\ points > 200 THEN "MEDIUM_ANIMAL"
    ELSE IF RatGT(intensity, <<1, 5>>) /\ points > 50 THEN "SMALL_ANIMAL"
    ELSE "AMBIENT_MOTION"

NoDetection == [timestamp |-> 0, intensity |-> <<0, 1>>,
                confidence |-> <<0, 1>>, type |-> "NONE"]

\* The detection object of lines 105-110.
MakeDetection(signal, now) ==
    LET intensity == Intensity(signal[1], signal[2])
    IN  [timestamp |-> now,
         intensity |-> intensity,
         confidence |-> calculateConfidence(intensity, signal[2]),
         type |-> classifyMotion(intensity, signal[2])]

---------------------------------------------------------------------------
(* History and analytics.                                                  *)

\* new Date(timestamp).getHours(): the local hour of day.
getHours(timestamp) == timestamp % hoursPerDay

\* new Date(timestamp).toLocaleTimeString(): the time of day, the date dropped.
toLocaleTimeString(timestamp) == timestamp % hoursPerDay

\* array.slice(-n): the last n elements.
SliceLast(s, n) == IF Len(s) <= n THEN s ELSE SubSeq(s, Len(s) - n + 1, Len(s))

HistoryEntry(detection) ==
    [time |-> toLocaleTimeString(detection.timestamp),
     intensity |-> detection.intensity,
     confidence |-> detection.confidence,
     type |-> detection.type]

\* The count of a category, 0 if the object has no such key.
TypeCount(byType, type) == IF type \in DOMAIN byType THEN byType[type] ELSE 0

\* A faulty variant of updateAnalytics: the previous categories are not spread into
\* the new object.
updateAnalyticsDropsTypes(prev, detection) ==
    LET hour == getHours(detection.timestamp)
    IN  [totalDetections |-> prev.totalDetections + 1,
         detectionsByType |->
             [t \in {detection.type} |-> TypeCount(prev.detectionsByType, t) + 1],
         hourlyActivity |->
             [prev.hourlyActivity EXCEPT ![hour] = prev.hourlyActivity[hour] + 1]]

\* A faulty variant of updateAnalytics: the hourly array is built afresh instead of
\* copied from the previous one.
updateAnalyticsFreshHours(prev, detection) ==
    LET hour == getHours(detection.timestamp)
    IN  [totalDetections |-> prev.totalDetections + 1,
         detectionsByType |->
             [t \in DOMAIN prev.detectionsByType \cup {detection.type} |->
                 IF t = detection.type
                 THEN TypeCount(prev.detectionsByType, t) + 1
                 ELSE prev.detectionsByType[t]],
         hourlyActivity |->
             [h \in 0..(hoursPerDay - 1) |-> IF h = hour THEN 1 ELSE 0]]

updateAnalytics(prev, detection) ==
    LET hour == getHours(detection.timestamp)
    IN  [totalDetections |-> prev.totalDetections + 1,
         detectionsByType |->
             [t \in DOMAIN prev.detectionsByType \cup {detection.type} |->
                 IF t = detection.type
                 THEN TypeCount(prev.detectionsByType, t) + 1
                 ELSE prev.detectionsByType[t]],
         hourlyActivity |->
             [prev.hourlyActivity EXCEPT ![hour] = prev.hourlyActivity[hour] + 1]]

\* A faulty variant of Accepts: the test reads the intensity against 0.2.
AcceptsByIntensity(detection) == RatGT(detection.intensity, <<1, 5>>)

\* The acceptance test of line 163.
Accepts(detection) == RatGT(detection.confidence, AcceptanceThreshold)

\* A faulty variant of handleDetection: slice(0, 50) keeps the oldest entries.
handleDetectionKeepsOldest(data, analytics, detection) ==
    IF Accepts(detection)
    THEN [detectionData |->
              SubSeq(Append(data, HistoryEntry(detection)), 1,
                     IF Len(data) + 1 > historyCapacity
                     THEN historyCapacity ELSE Len(data) + 1),
          analyticsData |-> updateAnalytics(analytics, detection)]
    ELSE [detectionData |-> data, analyticsData |-> analytics]

\* A faulty variant of handleDetection: the entry is appended but
\* updateAnalytics is not called.
handleDetectionSkipsAnalytics(data, analytics, detection) ==
    IF Accepts(detection)
    THEN [detectionData |->
              SliceLast(Append(data, HistoryEntry(detection)), historyCapacity),
          analyticsData |-> analytics]
    ELSE [detectionData |-> data, analyticsData |-> analytics]

\* handleDetection: the state [detectionData, analyticsData] after the call.
handleDetection(data, analytics, detection) ==
    IF Accepts(detection)
    THEN [detectionData |->
              SliceLast(Append(data, HistoryEntry(detection)), historyCapacity),
          analyticsData |-> updateAnalytics(analytics, detection)]
    ELSE [detectionData |-> data, analyticsData |-> analytics]

---------------------------------------------------------------------------
(* The mutable cells the handlers share: the refs, the canvas and the      *)
(* <video> element.  The handlers below are functions from cells to cells. *)

Cells ==
    [analysisIntervalRef |-> analysisIntervalRef,
     timers |-> timers,
     streamRef |-> streamRef,
     video |-> video,
     canvas |-> canvas,
     analysisContextRef |-> analysisContextRef,
     previousFrameRef |-> previousFrameRef,
     processingRef |-> processingRef]

SetCells(c) ==
    /\ analysisIntervalRef' = c.analysisIntervalRef
    /\ timers' = c.timers
    /\ streamRef' = c.streamRef
    /\ video' = c.video
    /\ canvas' = c.canvas
    /\ analysisContextRef' = c.analysisContextRef
    /\ previousFrameRef' = c.previousFrameRef
    /\ processingRef' = c.processingRef

NoVideo == [readyState |-> 0, videoWidth |-> 0, videoHeight |-> 0]

DefaultCanvas == [width |-> 300, height |-> 150]

\* clearInterval(id): the timer with that id is no longer live.
clearInterval(ts, id) == {t \in ts : t.id # id}

\* setInterval returns an id no live timer has and the ref does not hold.
NewTimerId(c) ==
    LET used == {t.id : t \in c.timers} \cup {c.analysisIntervalRef}
    IN  CHOOSE n \in 1..(Cardinality(used) + 1) :
            n \notin used /\ \A m \in 1..(n - 1) : m \in used

\* A faulty variant of startFrameAnalysis: the running timer is not cleared.
startFrameAnalysisStacking(c, active) ==
    [c EXCEPT !.timers = c.timers \cup {[id |-> NewTimerId(c), active |-> active]},
              !.analysisIntervalRef = NewTimerId(c)]

\* startFrameAnalysis (lines 121-132); active is the systemState.isActive of
\* the render whose closure the interval callback keeps.
startFrameAnalysis(c, active) ==
    LET cleared == IF c.analysisIntervalRef # 0
                   THEN clearInterval(c.timers, c.analysisIntervalRef)
                   ELSE c.timers
        id == NewTimerId(c)
    IN  [c EXCEPT !.timers = cleared \cup {[id |-> id, active |-> active]},
                  !.analysisIntervalRef = id]

\* A faulty variant of cleanup: the retained frame is not released.
cleanupKeepsFrame(c) ==
    [c EXCEPT !.timers = IF c.analysisIntervalRef # 0
                         THEN clearInterval(c.timers, c.analysisIntervalRef)
                         ELSE c.timers,
              !.analysisIntervalRef = 0,
              !.streamRef = FALSE,
              !.processingRef = FALSE]

\* cleanup (lines 134-147).  Stopping the tracks leaves the <video> element
\* showing its last frame.
cleanup(c) ==
    [c EXCEPT !.timers = IF c.analysisIntervalRef # 0
                         THEN clearInterval(c.timers, c.analysisIntervalRef)
                         ELSE c.timers,
              !.analysisIntervalRef = 0,
              !.streamRef = FALSE,
              !.previousFrameRef = NoFrame,
              !.processingRef = FALSE]

\* The body shared by the onloadedmetadata handler (233-237) and the
\* readiness effect (323-327).
PrepareAndStart(c, active) ==
    startFrameAnalysis(
        [c EXCEPT !.canvas = [width |-> c.video.videoWidth,
                              height |-> c.video.videoHeight],
                  !.analysisContextRef = TRUE],
        active)

\* The readiness effect (lines 321-329) at a render: it runs when its
\* dependency videoRef.current?.readyState differs from the last render's.
readinessEffect(c, dep, active) ==
    IF c.video.readyState # dep /\ c.video.readyState >= 2
    THEN PrepareAndStart(c, active)
    ELSE c

\* Lines 101-113 of analyzeFrame, given the signal of the scan.
CycleResult(after, frame, signal, now) ==
    IF signal[2] > 0
    THEN [cells |-> after, outcome |-> "detection", frame |-> frame,
          signal |-> signal, detection |-> MakeDetection(signal, now)]
    ELSE [cells |-> after, outcome |-> "nomotion", frame |-> frame,
          signal |-> signal, detection |-> NoDetection]

\* A faulty variant of finallyBlock: the in-progress mark is not cleared.
finallyBlockMissing(c) == c

\* The finally block of analyzeFrame (lines 116-118).
finallyBlock(c) == [c EXCEPT !.processingRef = FALSE]

\* analyzeFrame (lines 51-119) on the camera image `scene` at time `now`,
\* up to the call of handleDetection: the cells after it, what it did, and
\* the detection it hands to handleDetection.  `throws` says whether
\* drawImage or getImageData (lines 67-68) throws; the catch block (lines
\* 114-115) only logs.
analyzeFrame(c, scene, now, throws) ==
    IF c.video.videoWidth = 0 \/ c.processingRef \/ ~c.analysisContextRef
    THEN [cells |-> c, outcome |-> "guard", frame |-> NoFrame,
          signal |-> <<0, 0>>, detection |-> NoDetection]
    ELSE
    LET cv == IF c.canvas.width # c.video.videoWidth
                 \/ c.canvas.height # c.video.videoHeight
              THEN [width |-> c.video.videoWidth, height |-> c.video.videoHeight]
              ELSE c.canvas
        started == [c EXCEPT !.processingRef = TRUE, !.canvas = cv]
        frame == [width |-> cv.width, height |-> cv.height, scene |-> scene]
    IN  IF throws
        THEN [cells |-> finallyBlock(started), outcome |-> "error",
              frame |-> NoFrame, signal |-> <<0, 0>>, detection |-> NoDetection]
        ELSE IF c.previousFrameRef = NoFrame
        THEN [cells |-> finallyBlock([started EXCEPT !.previousFrameRef = frame,
                                                     !.processingRef = FALSE]),
              outcome |-> "warmup", frame |-> frame,
              signal |-> <<0, 0>>, detection |-> NoDetection]
        ELSE CycleResult(finallyBlock([started EXCEPT !.previousFrameRef = frame]),
                         frame, MotionSignal(frame, c.previousFrameRef), now)

---------------------------------------------------------------------------
(* Events.                                                                 *)

Event(op, outcome) ==
    [op |-> op, outcome |-> outcome, frame |-> NoFrame, retained |-> NoFrame,
     signal |-> <<0, 0>>, detection |-> NoDetection]

Init ==
    /\ isActive = TRUE
    /\ selectedCamera = "built-in"
    /\ pendingInits = 1
    /\ streamRef = FALSE
    /\ video = NoVideo
    /\ onloadedmetadata = FALSE
    /\ readyDep = 0
    /\ canvas = DefaultCanvas
    /\ analysisContextRef = FALSE
    /\ previousFrameRef = NoFrame
    /\ processingRef = FALSE
    /\ analysisIntervalRef = 0
    /\ timers = {}
    /\ detectionData = <<>>
    /\ analyticsData = [totalDetections |-> 0,
                        detectionsByType |-> <<>>,
                        hourlyActivity |-> [h \in 0..(hoursPerDay - 1) |-> 0]]
    /\ clock = 9
    /\ acceptedLog = <<>>
    /\ fresh = TRUE
    /\ lastEvent = Event("mount", "")

\* The interval callback of timer t fires (lines 127-131) with the camera
\* showing `scene`; cap bounds the accepted detections of a run, and faults
\* says whether reading the frame may throw.
IntervalTick(t, scene, cap, faults) ==
    /\ t \in timers
    /\ Len(acceptedLog) < cap
    /\ IF ~t.active
       THEN /\ lastEvent' = Event("tick", "inactive")
            /\ UNCHANGED <<isActive, selectedCamera, pendingInits, streamRef,
                           video, onloadedmetadata, readyDep, canvas,
                           analysisContextRef, previousFrameRef, processingRef,
                           analysisIntervalRef, timers, detectionData,
                           analyticsData, clock, acceptedLog, fresh>>
       ELSE
       \E throws \in faults :
       \E res \in {analyzeFrame(Cells, scene, clock, throws)} :
       \E now \in {[detectionData |-> detectionData, analyticsData |-> analyticsData]} :
       \E next \in {IF res.outcome = "detection"
                    THEN handleDetection(detectionData, analyticsData, res.detection)
                    ELSE now} :
       LET rendered == next # now
           after == IF rendered
                    THEN readinessEffect(res.cells, readyDep, isActive)
                    ELSE res.cells
       IN  /\ SetCells(after)
           /\ detectionData' = next.detectionData
           /\ analyticsData' = next.analyticsData
           /\ readyDep' = IF rendered THEN res.cells.video.readyState ELSE readyDep
           /\ acceptedLog' = IF rendered
                             THEN Append(acceptedLog, HistoryEntry(res.detection))
                             ELSE acceptedLog
           /\ fresh' = IF res.outcome \in {"guard", "error"} THEN fresh ELSE FALSE
           /\ lastEvent' =
                  [op |-> "tick",
                   outcome |-> IF res.outcome # "detection" THEN res.outcome
                               ELSE IF rendered THEN "accepted" ELSE "rejected",
                   frame |-> res.frame,
                   retained |-> IF res.outcome \in {"guard", "error"} THEN NoFrame
                                ELSE previousFrameRef,
                   signal |-> res.signal,
                   detection |-> res.detection]
           /\ UNCHANGED <<isActive, selectedCamera, pendingInits,
                          onloadedmetadata, clock>>

\* The activation effect (lines 312-319) at the render after its
\* dependencies changed: the previous effect's cleanup, then
\* initializeCamera if the system is active, then the readiness effect.
ActivationRender(active, camera, op) ==
    LET c == readinessEffect(cleanup(Cells), readyDep, active)
    IN  /\ active => pendingInits < MaxPendingInits
        /\ isActive' = active
        /\ selectedCamera' = camera
        /\ pendingInits' = IF active THEN pendingInits + 1 ELSE pendingInits
        /\ SetCells(c)
        /\ readyDep' = c.video.readyState
        /\ fresh' = TRUE
        /\ lastEvent' = Event(op, IF c.analysisIntervalRef # 0 THEN "started" ELSE "")
        /\ UNCHANGED <<onloadedmetadata, detectionData, analyticsData, clock,
                       acceptedLog>>

\* The Active / Inactive button (lines 345-348).
ToggleActive == ActivationRender(~isActive, selectedCamera, "toggle")

\* The camera buttons (lines 392, 402); choosing the selected camera again
\* changes no state.
SelectCamera(camera) ==
    /\ camera # selectedCamera
    /\ ActivationRender(isActive, camera, "camera")

\* A render caused by any other state update (the battery interval of
\* lines 301-310, setAvailableCameras): the readiness effect runs if its
\* dependency changed.
Rerender ==
    /\ video.readyState # readyDep
    /\ SetCells(readinessEffect(Cells, readyDep, isActive))
    /\ readyDep' = video.readyState
    /\ lastEvent' = Event("render", IF video.readyState >= 2 THEN "started" ELSE "")
    /\ UNCHANGED <<isActive, selectedCamera, pendingInits, onloadedmetadata,
                   detectionData, analyticsData, clock, acceptedLog, fresh>>

\* An initializeCamera call resumes after getUserMedia (lines 227-252):
\* "granted" (228-239), "fallback" (the catch branch, 243-248) or "failed".
\* Assigning srcObject resets the element until the metadata loads.
CameraInit(outcome) ==
    /\ pendingInits > 0
    /\ pendingInits' = pendingInits - 1
    /\ IF outcome = "failed"
       THEN UNCHANGED <<streamRef, video, onloadedmetadata>>
       ELSE /\ streamRef' = TRUE
            /\ video' = NoVideo
            /\ onloadedmetadata' = (onloadedmetadata \/ outcome = "granted")
    /\ lastEvent' = Event("init", outcome)
    /\ UNCHANGED <<isActive, selectedCamera, readyDep, canvas,
                   analysisContextRef, previousFrameRef, processingRef,
                   analysisIntervalRef, timers, detectionData, analyticsData,
                   clock, acceptedLog, fresh>>

\* The attached stream's metadata loads: the element has its dimensions and
\* the onloadedmetadata handler (lines 232-238), if installed, runs.  The
\* handler was created by a render in which systemState.isActive was true
\* (initializeCamera is only called then), and its startFrameAnalysis keeps
\* that value.
LoadedMetadata(dims) ==
    /\ streamRef
    /\ video.readyState = 0
    /\ LET c == [Cells EXCEPT !.video = [readyState |-> 4,
                                         videoWidth |-> dims[1],
                                         videoHeight |-> dims[2]]]
       IN  SetCells(IF onloadedmetadata THEN PrepareAndStart(c, TRUE) ELSE c)
    /\ lastEvent' = Event("loadedmetadata",
                          IF ~onloadedmetadata THEN ""
                          ELSE IF analysisIntervalRef # 0 THEN "restarted"
                          ELSE "started")
    /\ UNCHANGED <<isActive, selectedCamera, pendingInits, onloadedmetadata,
                   readyDep, detectionData, analyticsData, clock, acceptedLog,
                   fresh>>

\* The running stream changes its frame size.
VideoResize(dims) ==
    /\ streamRef
    /\ video.readyState >= 2
    /\ <<video.videoWidth, video.videoHeight>> # dims
    /\ video' = [video EXCEPT !.videoWidth = dims[1], !.videoHeight = dims[2]]
    /\ lastEvent' = Event("resize", "")
    /\ UNCHANGED <<isActive, selectedCamera, pendingInits, streamRef,
                   onloadedmetadata, readyDep, canvas, analysisContextRef,
                   previousFrameRef, processingRef, analysisIntervalRef, timers,
                   detectionData, analyticsData, clock, acceptedLog, fresh>>

\* Time passes.
AdvanceClock(times) ==
    /\ \E t \in times : t > clock /\ clock' = t
    /\ lastEvent' = Event("clock", "")
    /\ UNCHANGED <<isActive, selectedCamera, pendingInits, streamRef, video,
                   onloadedmetadata, readyDep, canvas, analysisContextRef,
                   previousFrameRef, processingRef, analysisIntervalRef, timers,
                   detectionData, analyticsData, acceptedLog, fresh>>

---------------------------------------------------------------------------
(* The lifecycle specification: every event, small frames.                 *)

Cameras == {"built-in", "continuity"}

LifecycleDims == {<<8, 16>>, <<16, 16>>}

LifecycleScenes == {Uniform(Gray(0)), Bands(8, Gray(255), 0, Gray(0), Gray(0))}

LifecycleTimes == {9, 14}

Next ==
    \/ \E t \in timers, s \in LifecycleScenes : IntervalTick(t, s, MaxDetections, BOOLEAN)
    \/ ToggleActive
    \/ \E cam \in Cameras : SelectCamera(cam)
    \/ Rerender
    \/ \E o \in {"granted", "fallback", "failed"} : CameraInit(o)
    \/ \E d \in LifecycleDims : LoadedMetadata(d)
    \/ \E d \in LifecycleDims : VideoResize(d)
    \/ AdvanceClock(LifecycleTimes)

Spec == Init /\ [][Next]_vars

---------------------------------------------------------------------------
(* The long-run specification: one camera start, then ticks over two       *)
(* alternating scenes until the history has overflowed.                    *)

HistoryDims == {<<8, 8>>}

HistoryScenes == {Uniform(Gray(0)), Uniform(Gray(255))}

HistoryTimes == {9, 14, 33}

NextHistory ==
    \/ \E t \in timers, s \in HistoryScenes :
           IntervalTick(t, s, historyCapacity + MaxOverflow, {FALSE})
    \/ CameraInit("granted")
    \/ \E d \in HistoryDims : LoadedMetadata(d)
    \/ AdvanceClock(HistoryTimes)

SpecHistory == Init /\ [][NextHistory]_vars

---------------------------------------------------------------------------
(* The classifier specification: one camera start on a 200 x 208 stream    *)
(* (25 x 26 = 650 sampled points), then ticks over scenes whose            *)
(* differences fall on and around every threshold.                         *)

PipelineDims == {<<200, 208>>}

Black == Gray(0)

White == Gray(255)

ClassifierScenes ==
    { Uniform(Black),
      \* a delta of 50 on every channel, on all 650 points and on 25 rows (625)
      Uniform(Gray(50)),
      Bands(200, Gray(50), 0, Black, Black),
      \* a delta of 50 on one channel only
      Uniform(<<50, 0, 0>>),
      \* intensity 7/10 on exactly 500 points and on 600 points
      Bands(80, White, 80, Gray(102), Black),
      Bands(96, White, 96, Gray(102), Black),
      \* intensity 1 on exactly 500 points and on all 650
      Bands(160, White, 0, Black, Black),
      Uniform(White),
      \* intensity 2/5 on exactly 200 points, intensity 1/5 on exactly 50
      Bands(64, Gray(102), 0, Black, Black),
      Bands(16, Gray(51), 0, Black, Black) }

NextClassifier ==
    \/ \E t \in timers, s \in ClassifierScenes :
           IntervalTick(t, s, MaxClassifierDetections, {FALSE})
    \/ CameraInit("granted")
    \/ \E d \in PipelineDims : LoadedMetadata(d)

SpecClassifier == Init /\ [][NextClassifier]_vars

---------------------------------------------------------------------------
(* The analytics specification: one camera start on a 120 x 120 stream     *)
(* (15 x 15 = 225 sampled points), then several detections of three        *)
(* categories, accepted and rejected, at two times of day.                 *)

AnalyticsDims == {<<120, 120>>}

AnalyticsScenes ==
    { Uniform(Black),
      Uniform(White),
      Bands(40, White, 0, Black, Black),
      Bands(8, Gray(100), 0, Black, Black),
      Bands(8, Gray(60), 0, Black, Black) }

AnalyticsTimes == {9, 14}

NextAnalytics ==
    \/ \E t \in timers, s \in AnalyticsScenes :
           IntervalTick(t, s, MaxAnalyticsDetections, {FALSE})
    \/ CameraInit("granted")
    \/ \E d \in AnalyticsDims : LoadedMetadata(d)
    \/ AdvanceClock(AnalyticsTimes)

SpecAnalytics == Init /\ [][NextAnalytics]_vars

---------------------------------------------------------------------------
(* Properties.                                                             *)

\* The step was an interval tick.
IsTick(e) == e.op = "tick"

\* The step was an interval tick whose analyzeFrame passed its guard and
\* read a frame.
CycleRan(e) == e.op = "tick" /\ e.outcome \notin {"inactive", "guard", "error"}

\* The byte index of the n-th sampled point of a frame.
SampleIndex(f, n) ==
    (((n \div GridCols(f)) * skipFactor) * f.width
        + (n % GridCols(f)) * skipFactor) * 4

\* The per-channel absolute differences of two frames of one size at the
\* n-th sampled point.
ChannelDeltas(prev, cur, n) ==
    LET a == PixelAt(cur, SampleIndex(cur, n))
        b == PixelAt(prev, SampleIndex(cur, n))
    IN  <<Abs(a[1] - b[1]), Abs(a[2] - b[2]), Abs(a[3] - b[3])>>

\* cur differs from prev by delta at more than minPoints sampled points and
\* is identical to it at the others.
DiffersByDelta(prev, cur, delta, minPoints) ==
    /\ prev # NoFrame
    /\ prev.width = cur.width
    /\ prev.height = cur.height
    /\ LET changed == {n \in 0..(GridCols(cur) * GridRows(cur) - 1) :
                          ChannelDeltas(prev, cur, n) # <<0, 0, 0>>}
       IN  /\ \A n \in changed : ChannelDeltas(prev, cur, n) = delta
           /\ Cardinality(changed) > minPoints

\* The count of a category in the analytics, 0 if absent.
CategoryCount(type) ==
    IF type \in DOMAIN analyticsData.detectionsByType
    THEN analyticsData.detectionsByType[type]
    ELSE 0

\* C1 (as claimed): a tick that fires while systemState.isActive is false
\* changes neither the retained previous frame, nor the detection history,
\* nor the analytics.
C1_InactiveTickChangesNothing ==
    [][(IsTick(lastEvent') /\ ~isActive) =>
          /\ previousFrameRef' = previousFrameRef
          /\ detectionData' = detectionData
          /\ analyticsData' = analyticsData]_vars

\* The failing input of C1: a tick records a detection while
\* systemState.isActive is false.
C1_InactiveDetection ==
    /\ lastEvent.op = "tick"
    /\ lastEvent.outcome = "accepted"
    /\ ~isActive

\* C2: the history is exactly the most recent 50 accepted detections in
\* their original order; once more than 50 were accepted, the oldest are
\* absent and the length stays at the capacity.
C2_HistoryIsLastFifty ==
    LET n == Len(acceptedLog)
        k == IF n > 50 THEN n - 50 ELSE 0
    IN  /\ Len(detectionData) <= 50
        /\ Len(detectionData) = n - k
        /\ \A i \in 1..Len(detectionData) : detectionData[i] = acceptedLog[k + i]

\* C2 witness: more than capacity + 1 detections were accepted and the
\* oldest one, now evicted, differs from the oldest one kept.
C2_Witness ==
    /\ Len(acceptedLog) > historyCapacity + 1
    /\ Len(detectionData) = historyCapacity
    /\ detectionData[1] # acceptedLog[1]

\* C3 (as claimed): a cycle that finds a retained frame whose dimensions
\* differ from the current frame's reports no motion: it emits no detection
\* and leaves the history and the analytics unchanged.
C3_MismatchReportsNoMotion ==
    [][(/\ CycleRan(lastEvent')
        /\ lastEvent'.retained # NoFrame
        /\ \/ lastEvent'.retained.width # lastEvent'.frame.width
           \/ lastEvent'.retained.height # lastEvent'.frame.height) =>
          /\ lastEvent'.detection = NoDetection
          /\ detectionData' = detectionData
          /\ analyticsData' = analyticsData]_vars

\* The failing input of C3: the camera shows one unchanged scene while the
\* frame size changes, and the cycle records a detection.
C3_StaticSceneDetected ==
    /\ lastEvent.op = "tick"
    /\ lastEvent.outcome = "accepted"
    /\ lastEvent.retained.scene = lastEvent.frame.scene
    /\ lastEvent.retained.width # lastEvent.frame.width

\* C4: the first cycle that runs after a cleanup (and so after
\* cleanup followed by startFrameAnalysis) finds no retained frame, stores
\* the current frame, and adds nothing to the history or the analytics.
C4_FirstCycleAfterStopWarmsUp ==
    [][(CycleRan(lastEvent') /\ fresh) =>
          /\ previousFrameRef = NoFrame
          /\ lastEvent'.outcome = "warmup"
          /\ previousFrameRef' = lastEvent'.frame
          /\ previousFrameRef' # NoFrame
          /\ detectionData' = detectionData
          /\ analyticsData' = analyticsData]_vars

\* C4 witness: a warm-up cycle has just run although detections were
\* recorded before, that is, frames were retained before a stop.
C4_Witness ==
    /\ lastEvent.op = "tick"
    /\ lastEvent.outcome = "warmup"
    /\ Len(acceptedLog) > 0

\* C5: every entry of the history has confidence > 0.4, and a cycle whose
\* detection has confidence <= 0.4 leaves the history and the analytics
\* unchanged.
C5_OnlyConfidentDetectionsAccepted ==
    /\ [](\A i \in 1..Len(detectionData) :
              5 * detectionData[i].confidence[1] > 2 * detectionData[i].confidence[2])
    /\ [][(/\ IsTick(lastEvent')
           /\ lastEvent'.detection # NoDetection
           /\ 5 * lastEvent'.detection.confidence[1]
                  <= 2 * lastEvent'.detection.confidence[2]) =>
             /\ detectionData' = detectionData
             /\ analyticsData' = analyticsData]_vars

\* C5 witness: a cycle has just computed a detection with confidence <= 0.4
\* while the history holds accepted detections.
C5_Witness ==
    /\ lastEvent.op = "tick"
    /\ lastEvent.detection # NoDetection
    /\ 5 * lastEvent.detection.confidence[1] <= 2 * lastEvent.detection.confidence[2]
    /\ Len(detectionData) > 0

\* C6: at most one analysis interval timer is live, and it is the one
\* analysisIntervalRef holds.
C6_AtMostOneTimer ==
    /\ Cardinality(timers) <= 1
    /\ \A t \in timers : t.id = analysisIntervalRef

\* C6 witness: startFrameAnalysis has just been called by a camera-ready
\* callback while a timer was running.
C6_Witness ==
    /\ lastEvent.op = "loadedmetadata"
    /\ lastEvent.outcome = "restarted"
    /\ Cardinality(timers) = 1

\* C7: totalDetections is the sum of the counts of all categories, an
\* absent category counting 0.
C7_TotalIsSumOfCategories ==
    /\ DOMAIN analyticsData.detectionsByType \subseteq Types
    /\ analyticsData.totalDetections =
           CategoryCount("LARGE_ANIMAL") + CategoryCount("MEDIUM_ANIMAL")
               + CategoryCount("SMALL_ANIMAL") + CategoryCount("AMBIENT_MOTION")

\* C7 witness: several detections of more than one category are recorded.
C7_Witness ==
    /\ analyticsData.totalDetections >= 2
    /\ Cardinality(DOMAIN analyticsData.detectionsByType) >= 2

\* The cycle compared a frame with a retained frame from which it differs by
\* 50 on each colour channel at more than 600 sampled points.
Delta50Cycle(e) ==
    CycleRan(e) /\ DiffersByDelta(e.retained, e.frame, <<50, 50, 50>>, 600)

\* C8 (as claimed): such a cycle produces exactly one detection, of
\* category LARGE_ANIMAL and confidence > 0.4.
C8_Delta50IsLargeAnimal ==
    [][Delta50Cycle(lastEvent') =>
          /\ Len(acceptedLog') = Len(acceptedLog) + 1
          /\ lastEvent'.detection.type = "LARGE_ANIMAL"
          /\ 5 * lastEvent'.detection.confidence[1]
                 > 2 * lastEvent'.detection.confidence[2]]_vars

\* C8 (amended): such a cycle produces exactly one detection, of category
\* AMBIENT_MOTION and confidence > 0.4, and it is the newest entry of the
\* history.
C8_Delta50IsAmbientMotion ==
    [][Delta50Cycle(lastEvent') =>
          /\ Len(acceptedLog') = Len(acceptedLog) + 1
          /\ lastEvent'.detection.type = "AMBIENT_MOTION"
          /\ 5 * lastEvent'.detection.confidence[1]
                 > 2 * lastEvent'.detection.confidence[2]
          /\ Len(detectionData') = Len(detectionData) + 1
          /\ detectionData'[Len(detectionData')].type = "AMBIENT_MOTION"]_vars

\* C8 witness: a cycle over such a pair of frames has just run.
C8_Witness == Delta50Cycle(lastEvent) /\ lastEvent.signal[2] > 600

\* C9: the category is LARGE_ANIMAL, MEDIUM_ANIMAL, SMALL_ANIMAL or
\* AMBIENT_MOTION by the first of the strict tests intensity > 0.7 and count
\* > 500, intensity > 0.4 and count > 200, intensity > 0.2 and count > 50
\* that holds; a signal exactly on a boundary falls to the next bucket.
C9_StrictThresholdsInOrder ==
    lastEvent.detection # NoDetection =>
        LET i == lastEvent.detection.intensity
            n == lastEvent.signal[2]
            type == lastEvent.detection.type
            large == 10 * i[1] > 7 * i[2] /\ n > 500
            medium == 5 * i[1] > 2 * i[2] /\ n > 200
            small == 5 * i[1] > i[2] /\ n > 50
        IN  /\ type = "LARGE_ANIMAL" <=> large
            /\ type = "MEDIUM_ANIMAL" <=> (~large /\ medium)
            /\ type = "SMALL_ANIMAL" <=> (~large /\ ~medium /\ small)
            /\ type = "AMBIENT_MOTION" <=> (~large /\ ~medium /\ ~small)
            /\ (i = <<7, 10>> /\ n = 500) => type = "MEDIUM_ANIMAL"
            /\ (i = <<2, 5>> /\ n = 200) => type = "SMALL_ANIMAL"
            /\ (i = <<1, 5>> /\ n = 50) => type = "AMBIENT_MOTION"

\* C9 witness: a detection with intensity exactly 0.7 over exactly 500
\* points has just been classified.
C9_Witness ==
    /\ lastEvent.detection # NoDetection
    /\ lastEvent.detection.intensity = <<7, 10>>
    /\ lastEvent.signal[2] = 500

\* C10: no step decreases totalDetections, a category count or an hourly
\* bucket, or removes a category; only an interval tick changes the
\* analytics or the history, and no step shortens the history.
C10_CountersNeverDecrease ==
    [][/\ analyticsData'.totalDetections >= analyticsData.totalDetections
       /\ \A t \in DOMAIN analyticsData.detectionsByType :
              /\ t \in DOMAIN analyticsData'.detectionsByType
              /\ analyticsData'.detectionsByType[t]
                     >= analyticsData.detectionsByType[t]
       /\ \A h \in 0..23 :
              analyticsData'.hourlyActivity[h] >= analyticsData.hourlyActivity[h]
       /\ Len(detectionData') >= Len(detectionData)
       /\ ~IsTick(lastEvent') =>
              /\ analyticsData' = analyticsData
              /\ detectionData' = detectionData]_vars

\* C10 witness: the activation effect has just run its cleanup (a stop)
\* with detections recorded at two different hours.
C10_Witness ==
    /\ lastEvent.op \in {"toggle", "camera"}
    /\ previousFrameRef = NoFrame
    /\ analyticsData.totalDetections >= 2
    /\ Cardinality({h \in 0..23 : analyticsData.hourlyActivity[h] > 0}) >= 2

\* C11: the in-progress mark is clear whenever a handler has finished,
\* whether the cycle ended in the warm-up return, normally or in a caught
\* error, so no two cycles overlap; a tick that finds the mark set runs no
\* cycle and changes neither the retained frame, nor the history, nor the
\* analytics; and a tick is dropped by the guard only for want of a video
\* frame or an analysis context, never because of a finished cycle.
C11_ReentrancyGuard ==
    /\ [](processingRef = FALSE)
    /\ [][IsTick(lastEvent') =>
             /\ processingRef =>
                    /\ lastEvent'.outcome \in {"inactive", "guard"}
                    /\ previousFrameRef' = previousFrameRef
                    /\ detectionData' = detectionData
                    /\ analyticsData' = analyticsData
             /\ lastEvent'.outcome = "guard" =>
                    (video.videoWidth = 0 \/ ~analysisContextRef)]_vars

\* C11 witness: a cycle has just ended in a caught error after an earlier
\* cycle retained a frame; the mark is clear, a timer is live and the guard
\* of the next tick is open.
C11_Witness ==
    /\ lastEvent.op = "tick"
    /\ lastEvent.outcome = "error"
    /\ previousFrameRef # NoFrame
    /\ ~processingRef
    /\ timers # {}
    /\ video.videoWidth # 0
    /\ analysisContextRef

\* The sum of the hourly buckets 0..(n - 1).
RECURSIVE HourlySum(_, _)
HourlySum(hourly, n) ==
    IF n = 0 THEN 0 ELSE hourly[n - 1] + HourlySum(hourly, n - 1)

\* C12: in every state the history holds min(totalDetections, 50) entries
\* and totalDetections is the sum of the 24 hourly buckets; every step adds
\* at most one entry to the history and raises totalDetections by exactly
\* the number of entries added; a step that adds an entry puts it last in
\* the history and increments the bucket of the detection's hour by one,
\* leaving the other 23 unchanged, and a step that adds none changes no
\* bucket.
C12_HistoryAndAnalyticsInStep ==
    /\ [](/\ Len(detectionData)
               = IF analyticsData.totalDetections < 50
                 THEN analyticsData.totalDetections ELSE 50
          /\ analyticsData.totalDetections
               = HourlySum(analyticsData.hourlyActivity, 24))
    /\ [][LET added == Len(acceptedLog') - Len(acceptedLog)
              hour == lastEvent'.detection.timestamp % 24
          IN  /\ added \in {0, 1}
              /\ analyticsData'.totalDetections
                     = analyticsData.totalDetections + added
              /\ \A h \in 0..23 :
                     analyticsData'.hourlyActivity[h]
                         = analyticsData.hourlyActivity[h]
                             + (IF added = 1 /\ h = hour THEN 1 ELSE 0)
              /\ added = 0 => detectionData' = detectionData
              /\ added = 1 =>
                     /\ IsTick(lastEvent')
                     /\ detectionData' # <<>>
                     /\ detectionData'[Len(detectionData')]
                            = acceptedLog'[Len(acceptedLog')]
                     /\ Len(detectionData')
                            = IF Len(detectionData) < 50
                              THEN Len(detectionData) + 1 ELSE 50]_vars

\* C12 witness: a cycle has just added an entry to a history that was
\* already full, with detections recorded at more than one hour.
C12_Witness ==
    /\ lastEvent.op = "tick"
    /\ lastEvent.outcome = "accepted"
    /\ Len(detectionData) = 50
    /\ analyticsData.totalDetections > 50
    /\ Cardinality({h \in 0..23 : analyticsData.hourlyActivity[h] > 0}) >= 2

===========================================================================
